---- MODULE Spec2Model ----
(***************************************************************************)
(* Model of datajoint/user_tables.py: the table tiers (Manual, Lookup,     *)
(* Imported, Computed, Part), their naming convention and recognition      *)
(* patterns, the OrderedClass metaclass (member order, class-level         *)
(* instantiation for supported attributes and operators) and the guarded   *)
(* delete / drop of Part tables.                                           *)
(*                                                                         *)
(* Python strings are modelled as sequences of one-character strings.      *)
(* Python values that are not strings are tagged tuples, so that every     *)
(* value is a tuple and any two values can be compared.                    *)
(*                                                                         *)
(* Spec follows the classes through declaration, registration, type-level  *)
(* uses and Part deletes and drops; SpecMembers follows the member lists   *)
(* through declarations and class-level assignments; SpecNames applies     *)
(* table_name and the tier patterns to bounded sets of names.              *)
(***************************************************************************)
EXTENDS Integers, Sequences, FiniteSets, TLC

VARIABLES
    input,      \* naming machine: the name or class description handed in
    output,     \* naming machine: what table_name / the patterns produced
    declared,   \* class machine: the user classes whose class statement has run
    members,    \* class machine: _ordered_class_members of every class
    database,   \* class machine: the database attribute of every user class
    master,     \* class machine: the _master attribute of every Part class
    instances,  \* class machine: number of instances constructed so far
    rows,       \* class machine: rows stored in each Part's table
    exists,     \* class machine: whether each Part's table exists in storage
    last        \* class machine: outcome of the last operation

nvars == <<input, output>>
cvars == <<declared, members, database, master, instances, rows, exists, last>>
vars == <<input, output, declared, members, database, master, instances, rows,
          exists, last>>

-----------------------------------------------------------------------------
(* Bounds of the model.                                                    *)

MaxLen == 6          \* longest raw name handed to the patterns
MaxTypeLen == 2      \* longest class name handed to table_name
MaxMembers == 2      \* class-level assignments of ordinary names in one behaviour
MaxInstances == 2    \* instances constructed in one behaviour
MaxRows == 1         \* rows inserted into one Part table

-----------------------------------------------------------------------------
(* Python values.                                                          *)

None == <<"None">>
Raised(e) == <<"raise", e>>
IsRaised(v) == Len(v) >= 2 /\ v[1] = "raise"
IsStr(v) == \A k \in 1..Len(v) : v[k] \notin {"None", "raise"}

LowerLetters ==
    {"a","b","c","d","e","f","g","h","i","j","k","l","m",
     "n","o","p","q","r","s","t","u","v","w","x","y","z"}
UpperSeq ==
    <<"A","B","C","D","E","F","G","H","I","J","K","L","M",
      "N","O","P","Q","R","S","T","U","V","W","X","Y","Z">>
LowerSeq ==
    <<"a","b","c","d","e","f","g","h","i","j","k","l","m",
      "n","o","p","q","r","s","t","u","v","w","x","y","z">>
UpperLetters == {UpperSeq[k] : k \in 1..Len(UpperSeq)}
Digits == {"0","1","2","3","4","5","6","7","8","9"}

-----------------------------------------------------------------------------
(* Regular expressions, matched the way Python's re module matches them:   *)
(* a backtracking search that tries alternatives left to right and         *)
(* repetitions greedily.  Match(re, s, i) is the sequence of ways re can   *)
(* match s from position i, in the order the search finds them; each way   *)
(* gives the position after the match and the spans of the named groups.   *)

GroupNames == {"manual", "lookup", "imported", "computed", "master", "part"}
NoSpan == <<0, 0>>
NoGroups == [g \in GroupNames |-> NoSpan]

ReSet(chars) == [op |-> "set", chars |-> chars]
ReLit(str) == [op |-> "lit", str |-> str]
ReCat(l, r) == [op |-> "cat", l |-> l, r |-> r]
ReAlt(l, r) == [op |-> "alt", l |-> l, r |-> r]
ReStar(r) == [op |-> "star", r |-> r]
ReGroup(name, r) == [op |-> "group", name |-> name, r |-> r]

\* the groups of a match followed by a later match: a later capture wins
MergeGroups(g1, g2) ==
    [g \in GroupNames |-> IF g2[g] # NoSpan THEN g2[g] ELSE g1[g]]

\* the ways `first` continues into each of `rest`, in order
Then(first, rest) ==
    [k \in 1..Len(rest) |->
        [end |-> rest[k].end, groups |-> MergeGroups(first.groups, rest[k].groups)]]

RECURSIVE Match(_, _, _)
Match(re, s, i) ==
    CASE re.op = "set" ->
            IF i <= Len(s) /\ s[i] \in re.chars
            THEN << [end |-> i + 1, groups |-> NoGroups] >>
            ELSE << >>
      [] re.op = "lit" ->
            IF i + Len(re.str) - 1 <= Len(s)
               /\ SubSeq(s, i, i + Len(re.str) - 1) = re.str
            THEN << [end |-> i + Len(re.str), groups |-> NoGroups] >>
            ELSE << >>
      [] re.op = "cat" ->
            LET ls == Match(re.l, s, i)
                R[k \in 0..Len(ls)] ==
                    IF k = 0 THEN << >>
                    ELSE R[k - 1] \o Then(ls[k], Match(re.r, s, ls[k].end))
            IN  R[Len(ls)]
      [] re.op = "alt" -> Match(re.l, s, i) \o Match(re.r, s, i)
      [] re.op = "star" ->
            LET once == Match(re.r, s, i)
                R[k \in 0..Len(once)] ==
                    IF k = 0 THEN << >>
                    ELSE R[k - 1] \o
                         (IF once[k].end > i
                          THEN Then(once[k], Match(re, s, once[k].end))
                          ELSE << >>)
            IN  R[Len(once)] \o << [end |-> i, groups |-> NoGroups] >>
      [] re.op = "group" ->
            LET rs == Match(re.r, s, i)
            IN  [k \in 1..Len(rs) |->
                    [end |-> rs[k].end,
                     groups |-> [rs[k].groups EXCEPT ![re.name] = <<i, rs[k].end>>]]]

NoMatch == [matched |-> FALSE, groups |-> NoGroups]

\* re.fullmatch(re, s): the first way of matching that ends at the end of s
fullmatch(re, s) ==
    LET ms == Match(re, s, 1)
        hits == {k \in 1..Len(ms) : ms[k].end = Len(s) + 1}
    IN  IF hits = {} THEN NoMatch
        ELSE LET k == CHOOSE h \in hits : \A o \in hits : h <= o
             IN  [matched |-> TRUE, groups |-> ms[k].groups]

\* m.group(name) of a match m of s; None when the group took no part
group(m, s, name) ==
    IF m.groups[name] = NoSpan THEN None
    ELSE SubSeq(s, m.groups[name][1], m.groups[name][2] - 1)

-----------------------------------------------------------------------------
(* The naming convention.                                                  *)

\* [a-z][a-z0-9]*
Word == ReCat(ReSet(LowerLetters), ReStar(ReSet(LowerLetters \cup Digits)))

\* the mutant: a run of underscores may separate two words
_base_regexp_runs == ReCat(Word, ReStar(ReCat(ReCat(ReLit(<<"_">>), ReStar(ReLit(<<"_">>))), Word)))

\* _base_regexp = r'[a-z][a-z0-9]*(_[a-z][a-z0-9]*)*'
_base_regexp == ReCat(Word, ReStar(ReCat(ReLit(<<"_">>), Word)))

RootTiers == <<"Manual", "Lookup", "Imported", "Computed">>
RootTierSet == {RootTiers[k] : k \in 1..Len(RootTiers)}
Tiers == RootTierSet \cup {"Part"}

\* the mutant: Computed with the prefix of Imported
_prefix_single(tier) ==
    CASE tier = "Manual" -> << >>
      [] tier = "Lookup" -> <<"#">>
      [] tier = "Imported" -> <<"_">>
      [] tier = "Computed" -> <<"_">>
      [] OTHER -> None

\* the class attribute _prefix of each tier class; Part and UserTable leave it None
_prefix(tier) ==
    CASE tier = "Manual" -> << >>
      [] tier = "Lookup" -> <<"#">>
      [] tier = "Imported" -> <<"_">>
      [] tier = "Computed" -> <<"_", "_">>
      [] OTHER -> None

GroupOf(tier) ==
    CASE tier = "Manual" -> "manual"
      [] tier = "Lookup" -> "lookup"
      [] tier = "Imported" -> "imported"
      [] tier = "Computed" -> "computed"

\* the mutant: the part separator is a single underscore
Part_tier_regexp_single ==
    ReCat(ReCat(ReGroup("master",
                    ReAlt(ReAlt(ReAlt(
                        ReGroup("manual", ReCat(ReLit(_prefix("Manual")), _base_regexp)),
                        ReGroup("lookup", ReCat(ReLit(_prefix("Lookup")), _base_regexp))),
                        ReGroup("imported", ReCat(ReLit(_prefix("Imported")), _base_regexp))),
                        ReGroup("computed", ReCat(ReLit(_prefix("Computed")), _base_regexp)))),
                ReLit(<<"_">>)),
          ReGroup("part", _base_regexp))

\* tier_regexp of Manual, Lookup, Imported and Computed:
\*   r'(?P<tier>' + _prefix + _base_regexp + ')'
RootRegexp(tier) == ReGroup(GroupOf(tier), ReCat(ReLit(_prefix(tier)), _base_regexp))

\* Part.tier_regexp: r'(?P<master>' + '|'.join(root patterns) + r'){1,1}' + '__'
\*   + r'(?P<part>' + _base_regexp + ')'; {1,1} repeats the group exactly once
Part_tier_regexp ==
    ReCat(ReCat(ReGroup("master",
                    ReAlt(ReAlt(ReAlt(RootRegexp("Manual"), RootRegexp("Lookup")),
                                RootRegexp("Imported")),
                          RootRegexp("Computed"))),
                ReLit(<<"_", "_">>)),
          ReGroup("part", _base_regexp))

tier_regexp(tier) == IF tier = "Part" THEN Part_tier_regexp ELSE RootRegexp(tier)

ToLower(c) ==
    IF c \in UpperLetters
    THEN LowerSeq[CHOOSE k \in 1..Len(UpperSeq) : UpperSeq[k] = c]
    ELSE c

\* utils.from_camel_case: a name that does not begin with a capital letter is
\* refused; every capital is put in lower case, with an underscore before it
\* unless it is the first character
RECURSIVE CamelTail(_, _)
CamelTail(s, k) ==
    IF k > Len(s) THEN << >>
    ELSE (IF s[k] \in UpperLetters /\ k > 1 THEN <<"_">> ELSE << >>)
         \o <<ToLower(s[k])>> \o CamelTail(s, k + 1)

from_camel_case(s) ==
    IF Len(s) = 0 \/ s[1] \notin UpperLetters
    THEN Raised("DataJointError")
    ELSE CamelTail(s, 1)

\* UserTable.table_name for a class with the given _prefix and __name__
UserTable_table_name(prefix, name) ==
    IF prefix = None THEN Raised("AttributeError")
    ELSE IF IsRaised(from_camel_case(name)) THEN from_camel_case(name)
    ELSE prefix \o from_camel_case(name)

\* Part.table_name for a class with the given master table name (None when the
\* class has no master) and __name__
Part_table_name(masterName, name) ==
    IF masterName = None THEN None
    ELSE IF IsRaised(masterName) THEN masterName
    ELSE IF IsRaised(from_camel_case(name)) THEN from_camel_case(name)
    ELSE masterName \o <<"_", "_">> \o from_camel_case(name)

\* the tiers whose pattern matches the whole of s
MatchingTiers(s) == {t \in Tiers : fullmatch(tier_regexp(t), s).matched}

\* what is left of a root tier's group once the tier's prefix is taken off
BaseOf(tier, s) ==
    LET g == group(fullmatch(tier_regexp(tier), s), s, GroupOf(tier))
    IN  SubSeq(g, Len(_prefix(tier)) + 1, Len(g))

NotRecognized == <<"NotRecognized">>
RecognitionOrder == <<"Part", "Computed", "Imported", "Lookup", "Manual">>

\* recognize: the first tier, Part first and Computed before Imported, whose
\* pattern matches the whole name, with the base name it captures
recognize(s) ==
    LET hits == {k \in 1..Len(RecognitionOrder) :
                    fullmatch(tier_regexp(RecognitionOrder[k]), s).matched}
    IN  IF hits = {} THEN NotRecognized
        ELSE LET t == RecognitionOrder[CHOOSE h \in hits : \A o \in hits : h <= o]
             IN  IF t = "Part"
                 THEN <<t, group(fullmatch(Part_tier_regexp, s), s, "part")>>
                 ELSE <<t, BaseOf(t, s)>>

-----------------------------------------------------------------------------
(* The naming machine: a raw name, or the description of a declared class,  *)
(* is handed in; table_name and the recognition patterns are applied to it. *)

NameAlphabet == {"a", "0", "_", "#"}
TypeAlphabet == {"A", "a", "0"}

Strings(alphabet, n) == UNION {[1..k -> alphabet] : k \in 0..n}

\* class names: Python identifiers over the alphabet
TypeNames == {s \in Strings(TypeAlphabet, MaxTypeLen) : Len(s) > 0 /\ s[1] \notin Digits}

Inputs ==
    {[kind |-> "name", s |-> s, tier |-> "", mname |-> << >>, name |-> << >>] :
        s \in Strings(NameAlphabet, MaxLen)}
    \cup
    {[kind |-> "root", s |-> << >>, tier |-> t, mname |-> << >>, name |-> n] :
        t \in RootTierSet, n \in TypeNames}
    \cup
    {[kind |-> "part", s |-> << >>, tier |-> t, mname |-> m, name |-> n] :
        t \in RootTierSet, m \in TypeNames, n \in TypeNames}

NoInput == [kind |-> "", s |-> << >>, tier |-> "", mname |-> << >>, name |-> << >>]
NoOutput == [done |-> FALSE, name |-> None, tiers |-> {}, recognized |-> NotRecognized,
             master |-> None, part |-> None, roots |-> {}]

\* what the patterns say of the name s
Recognition(s) ==
    LET m == fullmatch(Part_tier_regexp, s)
    IN  [done |-> TRUE, name |-> s, tiers |-> MatchingTiers(s),
         recognized |-> recognize(s),
         master |-> group(m, s, "master"),
         part |-> group(m, s, "part"),
         roots |-> {t \in RootTierSet : group(m, s, GroupOf(t)) # None}]

Named(tn) == IF IsStr(tn) THEN Recognition(tn) ELSE [NoOutput EXCEPT !.done = TRUE, !.name = tn]

RecognizeName ==
    /\ input.kind = "name" /\ ~output.done
    /\ output' = Recognition(input.s)
    /\ UNCHANGED <<input, cvars>>

RootTableName ==
    /\ input.kind = "root" /\ ~output.done
    /\ output' = Named(UserTable_table_name(_prefix(input.tier), input.name))
    /\ UNCHANGED <<input, cvars>>

PartTableName ==
    /\ input.kind = "part" /\ ~output.done
    /\ output' = Named(Part_table_name(
                        UserTable_table_name(_prefix(input.tier), input.mname),
                        input.name))
    /\ UNCHANGED <<input, cvars>>

-----------------------------------------------------------------------------
(* The class machine: the classes of user_tables.py, and a user module that *)
(* declares an Imported table Recording with a Part table ChannelDetail     *)
(* nested in it, and a Computed table Spike.                                *)

TierClasses == {"Manual", "Lookup", "Imported", "Computed", "Part"}
ModuleClasses == <<"UserTable", "Manual", "Lookup", "Imported", "Computed", "Part">>
RootClasses == {"Recording", "Spike"}
PartClasses == {"ChannelDetail"}
UserClasses == RootClasses \cup PartClasses
Classes == {"UserTable"} \cup TierClasses \cup UserClasses
Schemas == {<<"l", "a", "b">>}

\* the first base of each class statement
Base(c) ==
    CASE c = "Recording" -> "Imported"
      [] c = "Spike" -> "Computed"
      [] c = "ChannelDetail" -> "Part"
      [] OTHER -> "UserTable"

\* the class in whose body a Part class is written
Outer(c) == "Recording"
Nested(c) == IF c = "Recording" THEN {"ChannelDetail"} ELSE {}

\* cls.__name__
Chars(c) ==
    CASE c = "Recording" -> <<"R","e","c","o","r","d","i","n","g">>
      [] c = "ChannelDetail" -> <<"C","h","a","n","n","e","l","D","e","t","a","i","l">>
      [] c = "Spike" -> <<"S","p","i","k","e">>
      [] c = "UserTable" -> <<"U","s","e","r","T","a","b","l","e">>
      [] c = "Manual" -> <<"M","a","n","u","a","l">>
      [] c = "Lookup" -> <<"L","o","o","k","u","p">>
      [] c = "Imported" -> <<"I","m","p","o","r","t","e","d">>
      [] c = "Computed" -> <<"C","o","m","p","u","t","e","d">>
      [] c = "Part" -> <<"P","a","r","t">>

\* the names bound by each class body, in the order of the class statement
namespace(c) ==
    CASE c = "UserTable" ->
            <<"__module__", "__qualname__", "__doc__", "_connection", "_heading",
              "tier_regexp", "_prefix", "definition", "connection", "table_name",
              "full_table_name">>
      [] c \in {"Manual", "Lookup", "Imported", "Computed"} ->
            <<"__module__", "__qualname__", "__doc__", "_prefix", "tier_regexp">>
      [] c = "Part" ->
            <<"__module__", "__qualname__", "__doc__", "_connection", "_heading",
              "_master", "tier_regexp", "connection", "full_table_name", "master",
              "table_name", "delete", "drop">>
      [] c = "Recording" -> <<"__module__", "__qualname__", "definition", "ChannelDetail">>
      [] c = "ChannelDetail" -> <<"__module__", "__qualname__", "definition">>
      [] c = "Spike" -> <<"__module__", "__qualname__", "definition", "make">>

RECURSIVE Mro(_)
Mro(c) == IF c = "UserTable" THEN <<c>> ELSE <<c>> \o Mro(Base(c))

\* the classes of the method resolution order of c that hold a member list
Holders(mem, c) == {k \in 1..Len(Mro(c)) : mem[Mro(c)[k]] # None}

\* the mutant: an assignment after the class statement is not recorded
OrderedClass_setattr_frozen(mem, c, name, value) ==
    IF name = "_ordered_class_members" THEN [mem EXCEPT ![c] = value] ELSE mem

\* OrderedClass.__setattr__, as it acts on the member lists: when the class has
\* (or inherits) a member list, the name is appended to that list; then the
\* attribute is set, which for _ordered_class_members gives the class its own list
OrderedClass_setattr(mem, c, name, value) ==
    LET appended ==
            IF Holders(mem, c) = {} THEN mem
            ELSE LET h == Mro(c)[CHOOSE k \in Holders(mem, c) :
                                    \A o \in Holders(mem, c) : k <= o]
                 IN  [mem EXCEPT ![h] = Append(@, name)]
    IN  IF name = "_ordered_class_members"
        THEN [appended EXCEPT ![c] = value]
        ELSE appended

\* OrderedClass.__new__: result._ordered_class_members = list(namespace)
OrderedClass_new(mem, c) ==
    OrderedClass_setattr(mem, c, "_ordered_class_members", namespace(c))

\* the member lists once user_tables.py has been imported
RECURSIVE Imported_members(_)
Imported_members(k) ==
    IF k = 0 THEN [c \in Classes |-> None]
    ELSE OrderedClass_new(Imported_members(k - 1), ModuleClasses[k])

\* attributes that trigger instantiation of user classes
supported_class_attrs ==
    {"key_source", "describe", "populate", "progress", "primary_key", "proj", "aggr",
     "heading", "fetch", "fetch1", "insert", "insert1", "drop", "drop_quick", "delete",
     "delete_quick", "get_df", "df", "get_head", "head", "get_tail", "tail"}

\* cls.database: set on a user class by the schema decorator, None before
Database(c) == IF c \in UserClasses THEN database[c] ELSE None
\* the value None where a class is expected
NoMaster == "None"
\* Part.master: cls._master
Part_master(c) == IF c \in PartClasses THEN master[c] ELSE NoMaster

IsPartClass(c) == c = "Part" \/ Base(c) = "Part"
TierOf(c) == IF c \in TierClasses \cup {"UserTable"} THEN c ELSE Base(c)

\* cls.table_name, by the class that defines the property for cls
RECURSIVE table_name(_)
table_name(c) ==
    IF IsPartClass(c)
    THEN Part_table_name(IF Part_master(c) = NoMaster THEN None
                         ELSE table_name(Part_master(c)),
                         Chars(c))
    ELSE UserTable_table_name(_prefix(TierOf(c)), Chars(c))

\* the backquote character, which the lexer of TLA+ does not take in a string
Backquote == "bq"

\* the format of the full name: backquote, database, backquote, dot, backquote,
\* table name, backquote
Format(db, tn) ==
    IF IsRaised(tn) THEN tn
    ELSE <<Backquote>> \o db \o <<Backquote, ".", Backquote>> \o tn \o <<Backquote>>

\* the mutant: the name is formatted whether or not the class is bound
UserTable_full_table_name_unchecked(c) ==
    IF c \notin {"Manual", "Imported", "Lookup", "Computed", "Part"}
    THEN Format(Database(c), table_name(c))
    ELSE None

\* UserTable.full_table_name
UserTable_full_table_name(c) ==
    IF c \notin {"Manual", "Imported", "Lookup", "Computed", "Part"}
    THEN IF Database(c) = None
         THEN Raised("DataJointError")
         ELSE Format(Database(c), table_name(c))
    ELSE None

\* the mutant: Part does not override the property of UserTable
Part_full_table_name_inherited(c) ==
    IF Database(c) = None
    THEN Raised("DataJointError")
    ELSE Format(Database(c), table_name(c))

\* Part.full_table_name
Part_full_table_name(c) ==
    IF Database(c) = None THEN None
    ELSE IF table_name(c) = None THEN None
    ELSE Format(Database(c), table_name(c))

full_table_name(c) ==
    IF IsPartClass(c) THEN Part_full_table_name(c) ELSE UserTable_full_table_name(c)

-----------------------------------------------------------------------------
(* Operations of the class machine.                                        *)

NoOp == [op |-> "import", cls |-> "", name |-> "", force |-> FALSE, inst |-> 0,
         result |-> None, forwarded |-> << >>]

\* names a caller reads on a class: four of the supported attributes and two
\* class properties that are not among them
ReadNames == {"heading", "fetch", "delete", "drop_quick", "full_table_name", "table_name"}
\* names a caller assigns on a class: one the class body binds, one it does not
AssignNames == {"definition", "comment"}
Operators == {"&", "-", "*", "+"}
CallNames == {"delete", "drop", "delete_quick", "drop_quick"}

DeleteMessage == "Cannot delete from a Part directly.  Delete from master instead"
DropMessage == "Cannot drop a Part directly.  Delete from master instead"

\* Table.delete, Table.drop, Table.delete_quick and Table.drop_quick: the generic
\* capability, which removes the rows (delete) or the table (drop)
Table_call(name) ==
    [result |-> None,
     forwarded |-> IF name \in {"delete", "delete_quick"} THEN <<"delete">> ELSE <<"drop">>]

\* the mutant: the force flag is not looked at
Part_delete_unguarded(force) == Table_call("delete")

\* Part.delete
Part_delete(force) ==
    IF force THEN Table_call("delete")
    ELSE [result |-> Raised("DataJointError") \o <<DeleteMessage>>, forwarded |-> << >>]

\* the mutant: a forced drop is refused too
Part_drop_refused(force) ==
    [result |-> Raised("DataJointError") \o <<DropMessage>>, forwarded |-> << >>]

\* Part.drop
Part_drop(force) ==
    IF force THEN Table_call("drop")
    ELSE [result |-> Raised("DataJointError") \o <<DropMessage>>, forwarded |-> << >>]

\* the call instance.name(force) on an instance of a Part class: delete and drop
\* are Part's own, the other names are inherited from Table
Part_call(name, force) ==
    CASE name = "delete" -> Part_delete(force)
      [] name = "drop" -> Part_drop(force)
      [] OTHER -> Table_call(name)

\* OrderedClass.__getattribute__: name in supported_class_attrs
Instantiates(name) == name \in supported_class_attrs

\* the mutant: one default instance is made and kept
NewInstance_cached(n) == IF n = 0 THEN 1 ELSE n

\* cls(): the instance made by a type-level use, numbered in order of construction
NewInstance(n) == n + 1

\* instance.__getattribute__(name) on a fresh instance of c: Part's delete and
\* drop are bound methods; for the attributes Table provides, the access may
\* compute the full table name (requests), whose error is the access's error
Instance_getattribute(c, name, requests) ==
    IF IsPartClass(c) /\ name \in {"delete", "drop"}
    THEN <<"bound method", "Part", name>>
    ELSE IF requests /\ IsRaised(full_table_name(c))
    THEN full_table_name(c)
    ELSE <<"attribute", "Table", name>>

\* type.__getattribute__(cls, name) for the class properties read in the model
Class_getattribute(c, name) ==
    CASE name = "full_table_name" -> full_table_name(c)
      [] name = "table_name" -> table_name(c)
      [] OTHER -> <<"attribute", "type", name>>

\* the class statement of a user class has run
Declare(c) ==
    /\ c \in UserClasses \ declared
    /\ Nested(c) \subseteq declared
    /\ declared' = declared \cup {c}
    /\ members' = OrderedClass_new(members, c)
    /\ last' = [NoOp EXCEPT !.op = "class", !.cls = c]
    /\ UNCHANGED <<database, master, instances, rows, exists, nvars>>

\* the number of assignments of ordinary names recorded for c
Assigned(c) ==
    Cardinality({k \in Len(namespace(c)) + 1 .. Len(members[c]) :
                    members[c][k] \in AssignNames})

RECURSIVE Sum(_, _)
Sum(f, S) == IF S = {} THEN 0 ELSE LET x == CHOOSE y \in S : TRUE IN f[x] + Sum(f, S \ {x})
AssignedInAll == Sum([c \in UserClasses |-> Assigned(c)], UserClasses)

\* cls.name = value, for a declared class and an ordinary name
SetAttr(c, name) ==
    /\ c \in declared
    /\ AssignedInAll < MaxMembers
    /\ members' = OrderedClass_setattr(members, c, name, None)
    /\ last' = [NoOp EXCEPT !.op = "setattr", !.cls = c, !.name = name]
    /\ UNCHANGED <<declared, database, master, instances, rows, exists, nvars>>

\* the schema decorator binds a root class: cls.database = database
BindRoot(c, db) ==
    /\ c \in RootClasses \cap declared
    /\ database[c] = None
    /\ database' = [database EXCEPT ![c] = db]
    /\ members' = OrderedClass_setattr(members, c, "database", db)
    /\ last' = [NoOp EXCEPT !.op = "bind", !.cls = c]
    /\ UNCHANGED <<declared, master, instances, rows, exists, nvars>>

\* the schema decorator, having bound the master, links a Part nested in it:
\* part._master = cls
LinkPart(p) ==
    /\ p \in PartClasses \cap declared
    /\ database[Outer(p)] # None
    /\ master[p] = NoMaster
    /\ master' = [master EXCEPT ![p] = Outer(p)]
    /\ members' = OrderedClass_setattr(members, p, "_master", None)
    /\ last' = [NoOp EXCEPT !.op = "link", !.cls = p]
    /\ UNCHANGED <<declared, database, instances, rows, exists, nvars>>

\* the schema decorator binds the linked Part to the master's database and
\* declares its table
BindPart(p) ==
    /\ p \in PartClasses \cap declared
    /\ master[p] # NoMaster
    /\ database[p] = None
    /\ database' = [database EXCEPT ![p] = database[master[p]]]
    /\ members' = OrderedClass_setattr(members, p, "database", None)
    /\ exists' = [exists EXCEPT ![p] = TRUE]
    /\ last' = [NoOp EXCEPT !.op = "bind", !.cls = p]
    /\ UNCHANGED <<declared, master, instances, rows, nvars>>

\* cls.name, read on the class
ClassGetattr(c, name, requests) ==
    /\ c \in declared \cup TierClasses
    /\ IF Instantiates(name)
       THEN /\ instances < MaxInstances
            /\ instances' = NewInstance(instances)
            /\ last' = [NoOp EXCEPT !.op = "getattr", !.cls = c, !.name = name,
                                    !.inst = instances',
                                    !.result = Instance_getattribute(c, name, requests)]
       ELSE /\ ~requests
            /\ instances' = instances
            /\ last' = [NoOp EXCEPT !.op = "getattr", !.cls = c, !.name = name,
                                    !.result = Class_getattribute(c, name)]
    /\ UNCHANGED <<declared, members, database, master, rows, exists, nvars>>

\* cls & arg, cls - arg, cls * arg, cls + arg: cls() op arg
ClassOperator(c, op) ==
    /\ c \in declared
    /\ instances < MaxInstances
    /\ instances' = NewInstance(instances)
    /\ last' = [NoOp EXCEPT !.op = "operator", !.cls = c, !.name = op,
                            !.inst = instances', !.result = <<"instance", op, "arg">>]
    /\ UNCHANGED <<declared, members, database, master, rows, exists, nvars>>

\* iter(cls): iter(cls())
ClassIter(c) ==
    /\ c \in declared
    /\ instances < MaxInstances
    /\ instances' = NewInstance(instances)
    /\ last' = [NoOp EXCEPT !.op = "iter", !.cls = c, !.name = "__iter__",
                            !.inst = instances', !.result = <<"iter", "instance">>]
    /\ UNCHANGED <<declared, members, database, master, rows, exists, nvars>>

\* what the generic capability does to the storage of p for the calls forwarded
StoredRows(p, forwarded) == IF forwarded = << >> \/ ~exists[p] THEN rows[p] ELSE 0
StoredTable(p, forwarded) == IF forwarded = <<"drop">> THEN FALSE ELSE exists[p]

\* name(force) called on an instance of a Part class the caller holds
InstanceCall(p, name, force) ==
    /\ p \in PartClasses \cap declared
    /\ name \in {"delete", "drop"} \/ ~force
    /\ LET out == Part_call(name, force)
       IN  /\ rows' = [rows EXCEPT ![p] = StoredRows(p, out.forwarded)]
           /\ exists' = [exists EXCEPT ![p] = StoredTable(p, out.forwarded)]
           /\ last' = [NoOp EXCEPT !.op = "call", !.cls = p, !.name = name,
                                   !.force = force, !.result = out.result,
                                   !.forwarded = out.forwarded]
    /\ UNCHANGED <<declared, members, database, master, instances, nvars>>

\* cls.name(force) called on a Part class: the name is read on the class, which
\* makes an instance, and the bound method is called
ClassCall(p, name, force) ==
    /\ p \in PartClasses \cap declared
    /\ name \in {"delete", "drop"} \/ ~force
    /\ Instantiates(name)
    /\ instances < MaxInstances
    /\ instances' = NewInstance(instances)
    /\ LET out == Part_call(name, force)
       IN  /\ rows' = [rows EXCEPT ![p] = StoredRows(p, out.forwarded)]
           /\ exists' = [exists EXCEPT ![p] = StoredTable(p, out.forwarded)]
           /\ last' = [NoOp EXCEPT !.op = "classcall", !.cls = p, !.name = name,
                                   !.force = force, !.inst = instances',
                                   !.result = out.result, !.forwarded = out.forwarded]
    /\ UNCHANGED <<declared, members, database, master, nvars>>

\* a row is inserted into the table of a Part
Insert(p) ==
    /\ p \in PartClasses \cap declared
    /\ exists[p]
    /\ rows[p] < MaxRows
    /\ rows' = [rows EXCEPT ![p] = @ + 1]
    /\ last' = [NoOp EXCEPT !.op = "insert", !.cls = p]
    /\ UNCHANGED <<declared, members, database, master, instances, exists, nvars>>

-----------------------------------------------------------------------------
(* The specifications.                                                     *)

ClassInit ==
    /\ declared = {}
    /\ members = Imported_members(Len(ModuleClasses))
    /\ database = [c \in UserClasses |-> None]
    /\ master = [p \in PartClasses |-> NoMaster]
    /\ instances = 0
    /\ rows = [p \in PartClasses |-> 0]
    /\ exists = [p \in PartClasses |-> FALSE]
    /\ last = NoOp

Init ==
    /\ ClassInit
    /\ input = NoInput
    /\ output = NoOutput

\* Assignments of ordinary names change the member lists alone, which no other
\* operation reads: they are followed in SpecMembers, with the class statements
\* and the schema decorator.
Next ==
    \/ \E c \in UserClasses : Declare(c)
    \/ \E c \in RootClasses, db \in Schemas : BindRoot(c, db)
    \/ \E p \in PartClasses : LinkPart(p)
    \/ \E p \in PartClasses : BindPart(p)
    \/ \E c \in Classes, n \in ReadNames, r \in BOOLEAN : ClassGetattr(c, n, r)
    \/ \E c \in UserClasses, o \in Operators : ClassOperator(c, o)
    \/ \E c \in UserClasses : ClassIter(c)
    \/ \E p \in PartClasses, n \in CallNames, f \in BOOLEAN : InstanceCall(p, n, f)
    \/ \E p \in PartClasses, n \in CallNames, f \in BOOLEAN : ClassCall(p, n, f)
    \/ \E p \in PartClasses : Insert(p)

Spec == Init /\ [][Next]_vars

NextMembers ==
    \/ \E c \in UserClasses : Declare(c)
    \/ \E c \in UserClasses, n \in AssignNames : SetAttr(c, n)
    \/ \E c \in RootClasses, db \in Schemas : BindRoot(c, db)
    \/ \E p \in PartClasses : LinkPart(p)
    \/ \E p \in PartClasses : BindPart(p)

SpecMembers == Init /\ [][NextMembers]_vars

InitNames ==
    /\ ClassInit
    /\ input \in Inputs
    /\ output = NoOutput

NextNames == RecognizeName \/ RootTableName \/ PartTableName

SpecNames == InitNames /\ [][NextNames]_vars

-----------------------------------------------------------------------------
(* The claims.                                                             *)

PartCallStep(o) == o.op \in {"call", "classcall"} /\ o.name \in {"delete", "drop"}
Refusal(name) ==
    Raised("DataJointError") \o <<IF name = "delete" THEN DeleteMessage ELSE DropMessage>>

\* C1: delete or drop of a Part with force false always fails with the
\* direct-part-mutation error and forwards no call to the generic capability:
\* the Part's rows and table are the same after the call as before it.
C1_UnforcedCallRefused ==
    [][(PartCallStep(last') /\ ~last'.force) =>
            /\ last'.result = Refusal(last'.name)
            /\ last'.forwarded = << >>
            /\ rows' = rows
            /\ exists' = exists]_vars

\* C1, its case: an unforced delete was refused on a Part that holds a row
C1_Witness ==
    /\ PartCallStep(last) /\ last.name = "delete" /\ ~last.force
    /\ IsRaised(last.result)
    /\ rows[last.cls] = 1

\* C2: the rows or the table of a Part are removed only by a delete or drop
\* called with force true; no operation on a Part instance or on the Part
\* class reaches the generic capability without the force check.
C2_OnlyForcedRemoval ==
    [][\A p \in PartClasses :
            (rows'[p] < rows[p] \/ (exists[p] /\ ~exists'[p])) =>
                (PartCallStep(last') /\ last'.force)]_vars

\* the leading part of a list
IsPrefix(a, b) == Len(a) <= Len(b) /\ SubSeq(b, 1, Len(a)) = a

TypeLevelUse(o) ==
    \/ o.op \in {"operator", "iter", "classcall"}
    \/ o.op = "getattr" /\ o.name \in supported_class_attrs

\* C4: every type-level use of a class (reading a supported attribute, one of
\* the operators & - * +, iteration) constructs exactly one new default
\* instance, never one made before, and gives the result of the same use of
\* that instance; reading any other name constructs no instance.
C4_OneInstancePerUse ==
    [][/\ TypeLevelUse(last') =>
            /\ instances' = instances + 1
            /\ last'.inst = instances'
            /\ last'.op = "getattr" =>
                    last'.result \in {Instance_getattribute(last'.cls, last'.name, r) :
                                        r \in BOOLEAN}
            /\ last'.op = "operator" => last'.result = <<"instance", last'.name, "arg">>
            /\ last'.op = "iter" => last'.result = <<"iter", "instance">>
       /\ (last'.op = "getattr" /\ ~TypeLevelUse(last')) =>
            /\ instances' = instances
            /\ last'.inst = 0]_vars

\* C4, its case: a second type-level use made a second instance
C4_Witness ==
    /\ last.op = "operator" /\ last.cls = "Spike"
    /\ last.inst = 2 /\ instances = 2

\* C5: for a user class of a root tier that is not bound to a schema, the full
\* table name, asked directly or by a supported attribute read on the class,
\* fails with the unbound-schema error, which reaches the caller as it is; a
\* full table name that is returned carries the schema the class is bound to.
C5_UnboundRootRaises ==
    /\ \A c \in RootClasses \cap declared :
        /\ Database(c) = None => full_table_name(c) = Raised("DataJointError")
        /\ IsStr(full_table_name(c)) =>
                /\ Database(c) \in Schemas
                /\ full_table_name(c) =
                        <<Backquote>> \o Database(c) \o <<Backquote, ".", Backquote>>
                        \o _prefix(Base(c)) \o from_camel_case(Chars(c)) \o <<Backquote>>
    /\ (last.op = "getattr" /\ last.cls \in RootClasses) =>
        /\ \A k \in 1..Len(last.result) : last.result[k] # "None"
        /\ IsRaised(last.result) =>
                (Database(last.cls) = None /\ last.result = Raised("DataJointError"))
        /\ (last.name = "full_table_name" /\ Database(last.cls) = None) =>
                last.result = Raised("DataJointError")

\* C5, its case: a supported attribute read on an unbound root class failed
C5_Witness ==
    /\ last.op = "getattr" /\ last.cls = "Recording" /\ last.name = "heading"
    /\ last.inst > 0
    /\ database["Recording"] = None
    /\ last.result = Raised("DataJointError")

\* the master of p is missing, unbound or without a table name
MasterAbsent(p) ==
    \/ master[p] = NoMaster
    \/ Database(master[p]) = None
    \/ ~IsStr(table_name(master[p]))

IsSnakeCase(b) ==
    /\ Len(b) > 0
    /\ b[1] \in LowerLetters
    /\ \A k \in 1..Len(b) :
        /\ b[k] \in LowerLetters \cup Digits \cup {"_"}
        /\ b[k] = "_" => (k < Len(b) /\ b[k + 1] \in LowerLetters)

\* C7: for every root tier T and lower-snake-case base name b, the name
\* T.prefix + b is matched as a whole by T's pattern and by no other tier's,
\* and recognized as (T, b); so the table name of a root class is recognized
\* as the class's tier and the snake-case form of its name.
C7_RootNameRecognized ==
    output.done =>
        /\ input.kind = "name" =>
            \A t \in RootTierSet :
                LET n == Len(_prefix(t))
                    b == SubSeq(input.s, n + 1, Len(input.s))
                IN  (IsPrefix(_prefix(t), input.s) /\ IsSnakeCase(b)) =>
                        /\ output.tiers = {t}
                        /\ output.recognized = <<t, b>>
        /\ (input.kind = "root" /\ IsStr(output.name)) =>
            /\ output.name = _prefix(input.tier) \o from_camel_case(input.name)
            /\ IsSnakeCase(from_camel_case(input.name))
            /\ output.tiers = {input.tier}
            /\ output.recognized = <<input.tier, from_camel_case(input.name)>>

\* C7, its case: the table name of a Computed class of two words was recognized
C7_Witness ==
    /\ output.done /\ input.kind = "root" /\ input.tier = "Computed"
    /\ output.name = <<"_", "_", "a", "_", "a">>
    /\ output.recognized = <<"Computed", <<"a", "_", "a">>>>

\* C8: the table name of a Part whose master is a root class is the master's
\* table name, two underscores and the snake-case form of the Part's name; the
\* Part pattern matches it, the master group being the master's table name,
\* matched by the master's own tier pattern and no other, and the part group
\* being the Part's base name.
C8_PartNameRecognized ==
    (output.done /\ input.kind = "part" /\ IsStr(output.name)) =>
        LET mtn == _prefix(input.tier) \o from_camel_case(input.mname)
            base == from_camel_case(input.name)
        IN  /\ output.name = mtn \o <<"_", "_">> \o base
            /\ "Part" \in output.tiers
            /\ output.master = mtn
            /\ output.roots = {input.tier}
            /\ output.part = base

\* C8, its case: a Part of an Imported master, both names of two words
C8_Witness ==
    /\ output.done /\ input.kind = "part" /\ input.tier = "Imported"
    /\ output.name = <<"_", "a", "_", "a", "_", "_", "a", "_", "a">>
    /\ output.master = <<"_", "a", "_", "a">>
    /\ output.part = <<"a", "_", "a">>

\* C9: at most one of the five tier patterns matches a name as a whole; a name
\* that none matches is NotRecognized, and a name that one matches is
\* recognized as that tier.
C9_AtMostOneTier ==
    (output.done /\ IsStr(output.name)) =>
        /\ Cardinality(output.tiers) <= 1
        /\ output.tiers = {} <=> output.recognized = NotRecognized
        /\ \A t \in output.tiers : output.recognized[1] = t

\* C9, its case: a raw name that is the name of a Part of a Computed master
C9_Witness ==
    /\ output.done /\ input.kind = "name"
    /\ output.tiers = {"Part"}
    /\ output.roots = {"Computed"}

\* C10: delete (drop) of a Part with force true forwards exactly one call to
\* the generic delete (drop) capability and raises no error.
C10_ForcedCallForwarded ==
    (PartCallStep(last) /\ last.force) =>
        /\ last.forwarded = <<last.name>>
        /\ ~IsRaised(last.result)

\* C10, its case: a forced drop on the class removed the Part's table
C10_Witness ==
    /\ last.op = "classcall" /\ last.name = "drop" /\ last.force
    /\ database["ChannelDetail"] # None
    /\ ~exists["ChannelDetail"]

====
